---- MODULE Spec2Model ----
(***************************************************************************)
(* Model of the numeric and file-handling helpers of                       *)
(* supervised_depth_correction:                                            *)
(*   - depth_completion/utils.py: save_gradslam_image, convert_img_label,  *)
(*     complete_sequence                                                   *)
(*   - supervised_depth_correction/data.py: KITTIRawPoses (gps_to_ecef,    *)
(*     get_calibrations, load_calib_file, __getitem__),                    *)
(*     KITTIDepthSelection (get_depth, __getitem__), Dataset               *)
(*                                                                         *)
(* A behaviour is one use of the library: Init chooses which entry point   *)
(* is exercised (op) together with its inputs, and the actions are the     *)
(* steps of that entry point.  Variables of the other entry points keep    *)
(* their idle value.                                                       *)
(*                                                                         *)
(* Numbers.  Depths are floats in the code.  The model keeps them as       *)
(* integers counting units of 1/(256*Sub) metre, so that multiples of      *)
(* 1/256 m and values between them are both representable.  Raw PNG        *)
(* samples are integers.  Python indices are 0-based; TLA+ sequences are   *)
(* 1-based, so a[i] in the code is a[i + 1] here.                          *)
(***************************************************************************)
EXTENDS Integers, Sequences, FiniteSets, TLC

VARIABLES
    op,         \* the entry point this behaviour exercises
    pc,         \* position inside the entry point
    img,        \* the float image given to save_gradslam_image
    png,        \* the uint16 PNG on disk: a sequence of raw samples
    depth,      \* result of get_depth
    tree,       \* kind of each path component below path_to_save
    files,      \* content of the directories image_02 and image_03
    files0,     \* the entries when the current call started
    ids,        \* dataset.ids
    replace,    \* complete_sequence argument
    camera,     \* complete_sequence argument
    level,      \* complete_sequence: number of path components already joined
    idx,        \* complete_sequence: loop variable i
    modelRuns,  \* loop positions for which model(depths, mask) was called
    callNo,     \* 1 for the first call of complete_sequence, 2 for the repeat
    calibIV,    \* content of calib_imu_to_velo.txt
    calibVC,    \* content of calib_velo_to_cam.txt
    gps2cam,    \* result of get_calibrations
    gps,        \* gps_to_ecef arguments
    ecef,       \* gps_to_ecef result
    rawPoses,   \* KITTIRawPoses.poses, one pose per oxts/data/*.txt file
    numTs,      \* number of lines of oxts/timestamps.txt
    ds,         \* the constructed Dataset
    item        \* result of Dataset.__getitem__

depthVars == <<img, png, depth>>
seqVars   == <<tree, files, files0, ids, replace, camera, level, idx, modelRuns, callNo>>
calibVars == <<calibIV, calibVC, gps2cam>>
gpsVars   == <<gps, ecef>>
dsVars    == <<rawPoses, numTs, ds, item>>
vars == <<op, pc, img, png, depth, tree, files, files0, ids, replace, camera,
          level, idx, modelRuns, callNo, calibIV, calibVC, gps2cam, gps, ecef,
          rawPoses, numTs, ds, item>>

----------------------------------------------------------------------------
(* Bounds of the model *)

NumPixels == 2      \* pixels of a depth image
Sub == 2            \* representable steps inside one raw unit (1/256 m)
MaxId == 2          \* frame ids are 0..MaxId
MaxCoord == 1       \* coordinates of the probe points are -MaxCoord..MaxCoord

----------------------------------------------------------------------------
(* Depth PNG convention *)

EncScale == 256     \* 2 ** 8 in save_gradslam_image
DecScale == 256     \* 256. in get_depth
Uint16Max == 65535  \* largest np.uint16
MinProper == 255    \* get_depth asserts np.max(depth) > 255

\* A float x is kept as the integer x * Den: the grid has Sub steps inside
\* each 1/256 m.
Den == 256 * Sub

Pixels == 1..NumPixels

RECURSIVE SeqMax(_)
SeqMax(s) ==
    IF Len(s) = 1 THEN s[1]
    ELSE LET m == SeqMax(Tail(s)) IN IF s[1] > m THEN s[1] ELSE m

\* an encoder that scales by 255 instead of 2 ** 8
ShiftRangeBy255(x) == x * 255

\* img *= (2 ** 8)
ShiftRange(x) == x * EncScale

\* img.astype(np.uint16): truncation toward zero inside the uint16 range; the
\* C conversion of a float outside it is undefined, so any of the usual
\* outcomes (wrap, saturate, zero) may come out.
AsUint16(y) ==
    IF y >= 0 /\ y \div Den <= Uint16Max
    THEN {y \div Den}
    ELSE {0, (y \div Den) % (Uint16Max + 1), Uint16Max}

\* Image.fromarray(.., mode='I;16').convert(mode='I').save(path): a 16-bit
\* greyscale PNG holding the samples.
PngSave(v) == IF v > Uint16Max THEN Uint16Max ELSE IF v < 0 THEN 0 ELSE v

\* np.array(Image.open(file), dtype=int)
PngLoad(v) == v

\* depth.astype(np.float) / 256.
ToMetres(v) == (v * Den) \div DecScale

Invalid == -Den     \* -1.

\* a decoder that forgets the invalid marker
MarkInvalidKeepsZero(d) == d

\* depth[depth == 0] = -1.
MarkInvalid(d) == IF d = 0 THEN Invalid ELSE d

NoDepth == [status |-> "none", map |-> FALSE, val |-> << >>]

\* get_depth, from the line that opens the file on.
get_depth(file, to_depth_map) ==
    LET raw == [p \in Pixels |-> PngLoad(file[p])] IN
    IF ~(SeqMax(raw) > MinProper)
    THEN [status |-> "AssertionError", map |-> to_depth_map, val |-> << >>]
    ELSE IF to_depth_map
    THEN [status |-> "ok", map |-> TRUE,
          val |-> [p \in Pixels |-> MarkInvalid(ToMetres(raw[p]))]]
    ELSE [status |-> "ok", map |-> FALSE, val |-> raw]

\* Raw samples and float depths the behaviours start from: the edges of the
\* convention (0, the 8-bit limit, the uint16 limit) and values between steps.
RawVals == {0, 1, MinProper, MinProper + 1, 300, Uint16Max}
ImgVals == {0, 1, Sub, Sub + 1, MinProper * Sub, (MinProper + 1) * Sub,
            (MinProper + 1) * Sub + 1, 300 * Sub, Uint16Max * Sub,
            Uint16Max * Sub + 1, (Uint16Max + 2) * Sub}

NoImage == << >>

\* The PNGs save_gradslam_image(image, img_path) may leave at img_path.
save_gradslam_image(image) ==
    LET cast(p) == AsUint16(ShiftRange(image[p]))
        outs == {o \in [Pixels -> UNION {cast(p) : p \in Pixels}] :
                    \A p \in Pixels : o[p] \in cast(p)}
    IN  {[p \in Pixels |-> PngSave(o[p])] : o \in outs}

SaveGradslamImage ==
    /\ op = "roundtrip" /\ pc = "start"
    /\ png' \in save_gradslam_image(img)
    /\ pc' = "saved"
    /\ UNCHANGED <<op, img, depth, seqVars, calibVars, gpsVars, dsVars>>

GetDepth ==
    /\ op \in {"roundtrip", "decode"} /\ pc = "saved"
    /\ \E to_depth_map \in BOOLEAN : depth' = get_depth(png, to_depth_map)
    /\ pc' = "done"
    /\ UNCHANGED <<op, img, png, seqVars, calibVars, gpsVars, dsVars>>

----------------------------------------------------------------------------
(* complete_sequence *)

\* frame ids: the small ones, and one that fills all ten digits
IdVals == (0..MaxId) \cup {1234567890}

\* str(name) of a non-negative int, as its sequence of decimal digits
RECURSIVE Str(_)
Str(n) == IF n < 10 THEN <<n>> ELSE Append(Str(n \div 10), n % 10)

Default == <<0, 0, 0, 0, 0, 0, 0, 0, 0, 0>>     \* "0000000000"

\* default[:-k] for k >= 1
DropLast(s, k) == SubSeq(s, 1, IF Len(s) - k < 0 THEN 0 ELSE Len(s) - k)

\* a label without the zero padding
LabelUnpadded(name) == Str(name)

convert_img_label(name) == DropLast(Default, Len(Str(name))) \o Str(name)

\* "%010d" % i, the frame number inside the KITTI file names of data.py
Fmt010d(i) == [k \in 1..10 |-> (i \div (10 ^ (10 - k))) % 10]

Folders == {"image_02", "image_03"}
Chain == <<"subseq", "proj_depth", "prediction">>
Nodes == {Chain[k] : k \in 1..Len(Chain)} \cup Folders

image_folder(cam) == IF cam = "left" THEN "image_02" ELSE "image_03"

\* subfolders = [subseq, "proj_depth", "prediction", image_folder]
subfolders(cam) == Append(Chain, image_folder(cam))

OldFile == [kind |-> "file", data |-> -1]   \* a file that was there before
OldDir  == [kind |-> "dir", data |-> -1]    \* a directory named like a frame
Pred(i) == [kind |-> "file", data |-> i]    \* the prediction for dataset[i]

\* os.path.exists(os.path.join(folder, name))
Exists(fs, folder, name) == name \in DOMAIN fs[folder]

Empty == [x \in {} |-> OldFile]
Put(dir, name, e) == [x \in DOMAIN dir \cup {name} |-> IF x = name THEN e ELSE dir[x]]
Del(dir, name) == [x \in DOMAIN dir \ {name} |-> dir[x]]

\* Dataset.__getitem__ asserts item in self.ids
InIds(i, s) == \E k \in 1..Len(s) : s[k] = i

\* a loop that never skips an existing prediction
NeverSkip(here, repl) == FALSE

\* if os.path.exists(img_path) and not replace: continue
MustSkip(here, repl) == here /\ ~repl

\* elif os.path.exists(img_path) and replace: os.remove(img_path)
MustRemove(here, repl) == here /\ repl

\* One pass of the loop body for position i (0-based):
\* the entries of the target folder afterwards, whether the model ran, and
\* whether an exception left the function.
LoopBody(fs, folder, s, i, repl) ==
    LET name == convert_img_label(s[i + 1])
        here == Exists(fs, folder, name)
        rm == ~MustSkip(here, repl) /\ MustRemove(here, repl)
    IN  IF MustSkip(here, repl)
        THEN [fs |-> fs, ran |-> FALSE, err |-> FALSE]
        ELSE IF rm /\ fs[folder][name].kind = "dir"
        THEN [fs |-> fs, ran |-> FALSE, err |-> TRUE]      \* os.remove fails
        ELSE LET gone == IF rm THEN [fs EXCEPT ![folder] = Del(@, name)] ELSE fs
             IN  IF ~InIds(i, s)
                 THEN [fs |-> gone, ran |-> FALSE, err |-> TRUE]   \* dataset[i]
                 ELSE [fs |-> [gone EXCEPT ![folder] = Put(@, name, Pred(i))],
                       ran |-> TRUE, err |-> FALSE]

\* for subfold in subfolders: join, and mkdir unless it is a directory
MkDir ==
    /\ op = "complete" /\ pc = "mkdirs"
    /\ level < Len(subfolders(camera))
    /\ LET node == subfolders(camera)[level + 1] IN
          \/ /\ tree[node] = "dir"
             /\ UNCHANGED <<tree, pc>>
             /\ level' = level + 1
          \/ /\ tree[node] = "absent"
             /\ tree' = [tree EXCEPT ![node] = "dir"]
             /\ level' = level + 1
             /\ UNCHANGED pc
          \/ /\ tree[node] = "file"         \* FileExistsError
             /\ pc' = "error"
             /\ UNCHANGED <<tree, level>>
    /\ UNCHANGED <<op, files, files0, ids, replace, camera, idx, modelRuns, callNo,
                   depthVars, calibVars, gpsVars, dsVars>>

EnterLoop ==
    /\ op = "complete" /\ pc = "mkdirs"
    /\ level = Len(subfolders(camera))
    /\ pc' = "loop"
    /\ UNCHANGED <<op, seqVars, depthVars, calibVars, gpsVars, dsVars>>

Iterate ==
    /\ op = "complete" /\ pc = "loop"
    /\ idx < Len(ids)
    /\ LET r == LoopBody(files, image_folder(camera), ids, idx, replace) IN
          /\ files' = r.fs
          /\ modelRuns' = IF r.ran THEN modelRuns \cup {idx} ELSE modelRuns
          /\ pc' = IF r.err THEN "error" ELSE pc
          /\ idx' = IF r.err THEN idx ELSE idx + 1
    /\ UNCHANGED <<op, tree, files0, ids, replace, camera, level, callNo,
                   depthVars, calibVars, gpsVars, dsVars>>

Return ==
    /\ op = "complete" /\ pc = "loop"
    /\ idx = Len(ids)
    /\ pc' = "returned"
    /\ UNCHANGED <<op, seqVars, depthVars, calibVars, gpsVars, dsVars>>

\* complete_sequence called again on the same arguments, with replace=False
CallAgain ==
    /\ op = "complete" /\ pc = "returned" /\ callNo = 1
    /\ callNo' = 2
    /\ replace' = FALSE
    /\ files0' = files
    /\ modelRuns' = {}
    /\ level' = 0
    /\ idx' = 0
    /\ pc' = "mkdirs"
    /\ UNCHANGED <<op, tree, files, ids, camera, depthVars, calibVars, gpsVars, dsVars>>

----------------------------------------------------------------------------
(* KITTIRawPoses: calibration *)

\* 4x4 matrices are tuples of rows.
MatMul(A, B) ==
    [r \in 1..4 |-> [c \in 1..4 |->
        A[r][1] * B[1][c] + A[r][2] * B[2][c] + A[r][3] * B[3][c] + A[r][4] * B[4][c]]]

\* A calibration file is kept as its 'R:' entry (nine numbers, row by row) and
\* its 'T:' entry (three numbers).
\* transform = np.bmat([[rotation, translation], [[[0, 0, 0, 1]]]])
load_calib_file(file) ==
    [r \in 1..4 |-> [c \in 1..4 |->
        IF r <= 3 /\ c <= 3 THEN file.R[3 * (r - 1) + c]
        ELSE IF r <= 3 THEN file.T[r]
        ELSE IF c = 4 THEN 1 ELSE 0]]

get_calibrations(imu_to_velo, velo_to_cam) ==
    LET TrImuToVelo == load_calib_file(imu_to_velo)
        TrVeloToCam == load_calib_file(velo_to_cam)
    IN  MatMul(TrImuToVelo, TrVeloToCam)

RotVals == { <<1, 0, 0,  0, 1, 0,  0, 0, 1>>,       \* identity
             <<0, -1, 0,  1, 0, 0,  0, 0, 1>>,      \* quarter turn about z
             <<1, 0, 0,  0, 0, -1,  0, 1, 0>> }     \* quarter turn about x
TransVals == { <<0, 0, 0>>, <<1, 0, 0>>, <<0, 2, -1>> }
CalibFiles == [R : RotVals, T : TransVals]

NoMatrix == << >>

GetCalibrations ==
    /\ op = "calib" /\ pc = "start"
    /\ gps2cam' = get_calibrations(calibIV, calibVC)
    /\ pc' = "done"
    /\ UNCHANGED <<op, calibIV, calibVC, depthVars, seqVars, gpsVars, dsVars>>

----------------------------------------------------------------------------
(* KITTIRawPoses: gps_to_ecef *)

a == 6378137            \* a = 6378137.0, metres
FinvMilli == 298257     \* finv = 298.257223563, in thousandths

\* x * m / d in integers without leaving 32 bits (d < 2^31 / m)
MulDiv(x, m, d) == (x \div d) * m + ((x % d) * m) \div d

\* sin and cos of the angles of the model, whole quarter turns in degrees
Sin(deg) == CASE deg % 360 = 0 -> 0 [] deg % 360 = 90 -> 1
              [] deg % 360 = 180 -> 0 [] deg % 360 = 270 -> -1
Cos(deg) == Sin(deg + 90)

\* v = a / np.sqrt(1 - e2 * sin(lat)^2) with e2 = 1 - (1 - f)^2, f = 1 / finv.
\* At the latitudes of the model sin^2 is 0 or 1, where the root is 1 or
\* 1 - f, so v is a or a / (1 - f) = a + a / (finv - 1), rounded down to
\* metres.
PrimeVertical(lat) ==
    IF Sin(lat) = 0 THEN a ELSE a + MulDiv(a, 1000, FinvMilli - 1000)

gps_to_ecef(lat, lon, alt) ==
    LET v == PrimeVertical(lat)
        x == (v + alt) * Cos(lat) * Cos(lon)
        y == (v + alt) * Cos(lat) * Sin(lon)
        z == alt
    IN  [x |-> x, y |-> y, z |-> z]

LatVals == {-90, 0, 90}
LonVals == {-90, 0, 90, 180}
AltVals == {0, 100, 250}
GpsVals == [lat : LatVals, lon : LonVals, alt : AltVals]

NoGps == [lat |-> 0, lon |-> 0, alt |-> 0]
NoEcef == [x |-> 0, y |-> 0, z |-> 0]

GpsToEcef ==
    /\ op = "gps" /\ pc = "start"
    /\ ecef' = gps_to_ecef(gps.lat, gps.lon, gps.alt)
    /\ pc' = "done"
    /\ UNCHANGED <<op, gps, depthVars, seqVars, calibVars, dsVars>>

----------------------------------------------------------------------------
(* Dataset *)

PoseVals == {11, 22}    \* two different poses

\* sorted(glob(..)): the ids of a set of frames, ascending
RECURSIVE Sorted(_)
Sorted(S) ==
    IF S = {} THEN << >>
    ELSE LET m == CHOOSE x \in S : \A y \in S : x <= y IN <<m>> \o Sorted(S \ {m})

NoDataset == [status |-> "none", ids |-> << >>, poses |-> << >>]
NoItem == [status |-> "none", arg |-> 0, data |-> << >>]

\* a Dataset that takes the first len(ids) poses instead of the poses at ids
DatasetInitByPosition(poses, depth_ids) ==
    IF Len(depth_ids) > Len(poses)
    THEN [status |-> "IndexError", ids |-> << >>, poses |-> << >>]
    ELSE [status |-> "ok", ids |-> depth_ids,
          poses |-> [k \in 1..Len(depth_ids) |-> poses[k]]]

\* Dataset.__init__: self.poses = self.ds_poses.poses[self.ds_depths.ids] is an
\* IndexError when an id has no oxts file.
DatasetInit(poses, depth_ids) ==
    IF \E k \in 1..Len(depth_ids) : depth_ids[k] >= Len(poses)
    THEN [status |-> "IndexError", ids |-> << >>, poses |-> << >>]
    ELSE [status |-> "ok", ids |-> depth_ids,
          poses |-> [k \in 1..Len(depth_ids) |-> poses[depth_ids[k] + 1]]]

\* KITTIDepthSelection.__getitem__: rgb, depth, intrins of frame i
DepthItem(i) == <<[what |-> "rgb", of |-> i], [what |-> "depth", of |-> i],
                  [what |-> "intrinsics", of |-> i]>>

\* KITTIRawPoses.__getitem__: assert i in self.ids, ids = range(len(self.ts));
\* self.poses[i] is an IndexError when there is no i-th pose.
PoseItem(poses, nts, i) ==
    IF ~(0 <= i /\ i < nts) THEN [status |-> "AssertionError", pose |-> 0]
    ELSE IF i >= Len(poses) THEN [status |-> "IndexError", pose |-> 0]
    ELSE [status |-> "ok", pose |-> poses[i + 1]]

\* Dataset.__getitem__
DatasetGetItem(d, poses, nts, arg) ==
    IF ~InIds(arg, d.ids) THEN [status |-> "AssertionError", arg |-> arg, data |-> << >>]
    ELSE LET cdk == DepthItem(arg)
             p == PoseItem(poses, nts, arg)
         IN  IF p.status # "ok" THEN [status |-> p.status, arg |-> arg, data |-> << >>]
             ELSE [status |-> "ok", arg |-> arg,
                   data |-> <<cdk[1], cdk[2], cdk[3], [what |-> "pose", of |-> p.pose]>>]

Construct ==
    /\ op = "dataset" /\ pc = "start"
    /\ ds' = DatasetInit(rawPoses, ids)
    /\ pc' = IF ds'.status = "ok" THEN "ready" ELSE "error"
    /\ UNCHANGED <<op, rawPoses, numTs, item, depthVars, seqVars, calibVars, gpsVars>>

GetItem ==
    /\ op = "dataset" /\ pc = "ready"
    /\ \E arg \in 0..(MaxId + 1) : item' = DatasetGetItem(ds, rawPoses, numTs, arg)
    /\ UNCHANGED <<op, pc, rawPoses, numTs, ds, depthVars, seqVars, calibVars, gpsVars>>

----------------------------------------------------------------------------
(* Behaviours *)

IdleDepth == img = NoImage /\ png = NoImage /\ depth = NoDepth
IdleSeq ==
    /\ tree = [n \in Nodes |-> "absent"]
    /\ files = [f \in Folders |-> Empty] /\ files0 = files
    /\ replace = FALSE /\ camera = "left"
    /\ level = 0 /\ idx = 0 /\ modelRuns = {} /\ callNo = 1
IdleCalib == calibIV = NoMatrix /\ calibVC = NoMatrix /\ gps2cam = NoMatrix
IdleGps == gps = NoGps /\ ecef = NoEcef
IdleDs == rawPoses = << >> /\ numTs = 0 /\ ds = NoDataset /\ item = NoItem

\* The directory trees below an existing path_to_save: a component exists
\* only inside a directory.
Trees ==
    {t \in [Nodes -> {"absent", "dir", "file"}] :
        /\ t["subseq"] # "dir" => t["proj_depth"] = "absent"
        /\ t["proj_depth"] # "dir" => t["prediction"] = "absent"
        /\ \A f \in Folders : t["prediction"] # "dir" => t[f] = "absent"}

\* What an image folder may hold beforehand: files and directories named
\* like frames.
Contents ==
    {[x \in {Fmt010d(n) : n \in S} |-> e[x]] :
        e \in [{Fmt010d(n) : n \in IdVals} -> {OldFile, OldDir}], S \in SUBSET IdVals}

InitRoundtrip ==
    /\ op = "roundtrip" /\ pc = "start"
    /\ img \in [Pixels -> ImgVals] /\ png = NoImage /\ depth = NoDepth
    /\ IdleSeq /\ ids = << >> /\ IdleCalib /\ IdleGps /\ IdleDs

InitDecode ==
    /\ op = "decode" /\ pc = "saved"
    /\ img = NoImage /\ png \in [Pixels -> RawVals] /\ depth = NoDepth
    /\ IdleSeq /\ ids = << >> /\ IdleCalib /\ IdleGps /\ IdleDs

InitComplete ==
    /\ op = "complete" /\ pc = "mkdirs"
    /\ tree \in Trees
    /\ \E f \in Folders, c \in Contents :
          /\ (c # Empty => tree[f] = "dir")
          /\ files = [g \in Folders |-> IF g = f THEN c ELSE Empty]
    /\ files0 = files
    /\ ids \in {Sorted(S) : S \in SUBSET IdVals}
    /\ replace \in BOOLEAN /\ camera \in {"left", "right"}
    /\ level = 0 /\ idx = 0 /\ modelRuns = {} /\ callNo = 1
    /\ IdleDepth /\ IdleCalib /\ IdleGps /\ IdleDs

InitCalib ==
    /\ op = "calib" /\ pc = "start"
    /\ calibIV \in CalibFiles /\ calibVC \in CalibFiles /\ gps2cam = NoMatrix
    /\ IdleDepth /\ IdleSeq /\ ids = << >> /\ IdleGps /\ IdleDs

InitGps ==
    /\ op = "gps" /\ pc = "start"
    /\ gps \in GpsVals /\ ecef = NoEcef
    /\ IdleDepth /\ IdleSeq /\ ids = << >> /\ IdleCalib /\ IdleDs

\* A recording has at least one oxts file and two timestamps (fewer make
\* KITTIRawPoses.__init__ fail before a Dataset exists).
InitDataset ==
    /\ op = "dataset" /\ pc = "start"
    /\ rawPoses \in UNION {[1..n -> PoseVals] : n \in 1..(MaxId + 1)}
    /\ numTs \in 2..(MaxId + 1)
    /\ ids \in {Sorted(S) : S \in SUBSET (0..MaxId)}
    /\ ds = NoDataset /\ item = NoItem
    /\ IdleDepth /\ IdleSeq /\ IdleCalib /\ IdleGps

Init ==
    \/ InitRoundtrip
    \/ InitDecode
    \/ InitComplete
    \/ InitCalib
    \/ InitGps
    \/ InitDataset

Next ==
    \/ SaveGradslamImage
    \/ GetDepth
    \/ MkDir
    \/ EnterLoop
    \/ Iterate
    \/ Return
    \/ CallAgain
    \/ GetCalibrations
    \/ GpsToEcef
    \/ Construct
    \/ GetItem

Spec == Init /\ [][Next]_vars

----------------------------------------------------------------------------
(* Properties *)

\* C1: get_depth(i, to_depth_map=True) returns v/256 for every raw sample
\* v > 0 and -1 for every raw sample 0, so a returned pixel is positive
\* exactly when its raw sample is.
C1_DecodeBy256 ==
    (pc = "done" /\ depth.status = "ok" /\ depth.map) =>
        \A p \in Pixels :
            /\ png[p] > 0 => depth.val[p] * 256 = png[p] * Den
            /\ png[p] = 0 => depth.val[p] = -1 * Den
            /\ depth.val[p] > 0 <=> png[p] > 0

\* C1 witness: a 16-bit PNG with an invalid and a valid pixel was decoded.
C1_Witness ==
    /\ op = "decode" /\ pc = "done" /\ depth.status = "ok" /\ depth.map
    /\ \E p, q \in Pixels : png[p] = 0 /\ png[q] > 255

\* The depth images C2 speaks of: multiples of 1/256 in [0, 65535/256], one
\* of them at least 1 m.
C2_InRange ==
    /\ \A p \in Pixels : img[p] % Sub = 0 /\ 0 <= img[p] /\ img[p] <= 65535 * Sub
    /\ \E p \in Pixels : img[p] >= Den

\* C2: writing such an image with save_gradslam_image and reading it back
\* with get_depth(to_depth_map=True) returns the original value at every
\* pixel with positive depth and -1 at every zero pixel.
C2_RoundTrip ==
    (op = "roundtrip" /\ pc = "done" /\ depth.map /\ C2_InRange) =>
        /\ depth.status = "ok"
        /\ \A p \in Pixels :
              /\ img[p] > 0 => depth.val[p] = img[p]
              /\ img[p] = 0 => depth.val[p] = -1 * Den

\* C2 witness: an image in range with a zero pixel and the largest depth
\* went through the round trip.
C2_Witness ==
    /\ op = "roundtrip" /\ pc = "done" /\ depth.map /\ C2_InRange
    /\ \E p, q \in Pixels : img[p] = 0 /\ img[q] = 65535 * Sub

C7_ReplaceFalseKeeps ==
    (op = "complete" /\ ~replace) =>
        /\ \A f \in Folders : \A n \in DOMAIN files0[f] :
              n \in DOMAIN files[f] /\ files[f][n] = files0[f][n]
        /\ \A i \in modelRuns :
              ~Exists(files0, image_folder(camera), Fmt010d(ids[i + 1]))
        /\ callNo = 2 => files = files0 /\ modelRuns = {}

\* C7 witness: the second call returned, after a first call that wrote a
\* prediction next to a file it found.
C7_Witness ==
    /\ op = "complete" /\ pc = "returned" /\ callNo = 2 /\ Len(ids) >= 2
    /\ \E n, m \in DOMAIN files[image_folder(camera)] :
          /\ files[image_folder(camera)][n].data >= 0
          /\ files[image_folder(camera)][m] = OldFile

\* the probe points of the IMU frame
Points == [x : -MaxCoord..MaxCoord, y : -MaxCoord..MaxCoord, z : -MaxCoord..MaxCoord]

\* M applied to the point p (homogeneous coordinate 1)
Apply(M, p) ==
    [x |-> M[1][1] * p.x + M[1][2] * p.y + M[1][3] * p.z + M[1][4],
     y |-> M[2][1] * p.x + M[2][2] * p.y + M[2][3] * p.z + M[2][4],
     z |-> M[3][1] * p.x + M[3][2] * p.y + M[3][3] * p.z + M[3][4]]

\* C4: applying the matrix get_calibrations returns to a point of the IMU
\* frame equals applying calib_imu_to_velo first and calib_velo_to_cam
\* second.
C4_ImuToCam ==
    (op = "calib" /\ pc = "done") =>
        \A p \in Points :
            Apply(gps2cam, p) =
                Apply(load_calib_file(calibVC), Apply(load_calib_file(calibIV), p))

\* WGS84 ECEF at the latitudes of the model: z = (v * (1 - e2) + alt) * sin(lat),
\* where v * (1 - e2) is a * (1 - f) = a - a / finv at the poles.
EcefZ(lat, alt) ==
    IF Sin(lat) = 0 THEN 0
    ELSE (a - MulDiv(a, 1000, FinvMilli) + alt) * Sin(lat)

\* C5: the three coordinates gps_to_ecef returns are the WGS84 ECEF
\* coordinates of (lat, lon, alt).
C5_Ecef ==
    (op = "gps" /\ pc = "done") =>
        /\ ecef.x = (PrimeVertical(gps.lat) + gps.alt) * Cos(gps.lat) * Cos(gps.lon)
        /\ ecef.y = (PrimeVertical(gps.lat) + gps.alt) * Cos(gps.lat) * Sin(gps.lon)
        /\ ecef.z = EcefZ(gps.lat, gps.alt)

\* C6: Dataset.ids are the depth-selection ids, and Dataset[ids[k]] is
\* [colors, depths, intrinsics, poses] where poses is the raw pose at index
\* ids[k] and equals Dataset.poses[k]; the item is returned whenever the
\* recording has a timestamp for every oxts file.
C6_FramePose ==
    (op = "dataset" /\ ds.status = "ok") =>
        /\ ds.ids = ids
        /\ item.status = "ok" =>
              /\ [j \in 1..4 |-> item.data[j].what] =
                     <<"rgb", "depth", "intrinsics", "pose">>
              /\ \A j \in 1..3 : item.data[j].of = item.arg
              /\ item.data[4].of = rawPoses[item.arg + 1]
              /\ \A k \in 1..Len(ds.ids) :
                     ds.ids[k] = item.arg => item.data[4].of = ds.poses[k]
        /\ (item.status # "none" /\ InIds(item.arg, ds.ids) /\ numTs >= Len(rawPoses))
              => item.status = "ok"

\* C6 witness: the item of a frame that is not at its own position (ids[k]
\* differs from k) was returned, from a recording whose poses differ.
C6_Witness ==
    /\ op = "dataset" /\ ds.status = "ok" /\ item.status = "ok"
    /\ \E k \in 1..Len(ds.ids) :
          /\ ds.ids[k] = item.arg /\ item.arg # k - 1
          /\ rawPoses[k] # rawPoses[item.arg + 1]

====
